---- MODULE Spec2Model ----
(***************************************************************************)
(* Patient Visit Prediction Dashboard (app.py).                            *)
(*                                                                         *)
(* The script is executed top to bottom once per run of a dashboard        *)
(* session: it loads the model and the roster, reads the widgets, and,     *)
(* on the Prediction page with the button pressed, builds a one-row        *)
(* frame of calendar features, scores it and displays the clamped,         *)
(* rounded score.  Raw scores are fixed-point numbers counted in tenths    *)
(* (45 is 4.5, -32 is -3.2).  A DataFrame, the array returned by the       *)
(* scorer and the text written to the page are sequences (empty until      *)
(* they exist).                                                            *)
(***************************************************************************)
EXTENDS Integers, Sequences, FiniteSets, TLC

VARIABLES
    names_file,             \* content of patient_names.pkl (a list)
    model_file,             \* content of patient_visit_model.joblib
    scope,                  \* sessions, runs per session, dates offered by the date widget
    pc,                     \* position of each session's script run
    runs,                   \* script runs started by each session
    patient_names,          \* roster as loaded by the run
    pipeline,               \* model as loaded by the run
    page,                   \* sidebar selectbox value
    selected_patient,       \* patient selectbox value
    selected_date,          \* date_input value
    button,                 \* st.button return value of the run
    input_data,             \* the frame built by the run (rows)
    predicted_visit_count,  \* array returned by pipeline.predict
    shown,                  \* visit count written to the page
    builds,                 \* frames built in the current run
    score_calls,            \* pipeline.predict calls in the current run
    built_log,              \* every (session, run, patient, date, row) built so far
    shown_log               \* every (raw score, displayed count) so far

vars == <<names_file, model_file, scope, pc, runs, patient_names, pipeline,
          page, selected_patient, selected_date, button, input_data,
          predicted_visit_count, shown, builds, score_calls, built_log,
          shown_log>>

-----------------------------------------------------------------------------
(* Bounds *)

MaxSessions == 2
MaxRuns == 3
MinYear == 1895
MaxYear == 2105
MaxAbsRaw == 70

SessionIds == 1..MaxSessions

-----------------------------------------------------------------------------
(* Values *)

None == "None"
NoDate == [year |-> 0, month |-> 0, day |-> 0]
NoModel == [intercept |-> 0, coef |-> 0]

Date(y, m, d) == [year |-> y, month |-> m, day |-> d]

Elems(s) == {s[i] : i \in 1..Len(s)}

-----------------------------------------------------------------------------
(* datetime.date, as the standard library computes it *)

is_leap(year) ==
    year % 4 = 0 /\ (year % 100 # 0 \/ year % 400 = 0)

days_before_year(year) ==
    LET y == year - 1
    IN  y * 365 + (y \div 4) - (y \div 100) + (y \div 400)

days_in_month(year, month) ==
    IF month = 2 /\ is_leap(year) THEN 29
    ELSE <<31, 28, 31, 30, 31, 30, 31, 31, 30, 31, 30, 31>>[month]

days_before_month(year, month) ==
    <<0, 31, 59, 90, 120, 151, 181, 212, 243, 273, 304, 334>>[month]
        + (IF month > 2 /\ is_leap(year) THEN 1 ELSE 0)

ymd2ord(year, month, day) ==
    days_before_year(year) + days_before_month(year, month) + day

toordinal(date) == ymd2ord(date.year, date.month, date.day)

weekday_offby(date) == toordinal(date) % 7

weekday(date) == (toordinal(date) + 6) % 7

isoweek1monday(year) ==
    LET firstday == ymd2ord(year, 1, 1)
        firstweekday == (firstday + 6) % 7
        week1monday == firstday - firstweekday
    IN  IF firstweekday > 3 THEN week1monday + 7 ELSE week1monday

isocalendar_naive(date) ==
    LET doy == toordinal(date) - days_before_year(date.year)
    IN  [year |-> date.year, week |-> doy \div 7, weekday |-> weekday(date) + 1]

isocalendar(date) ==
    LET year == date.year
        today == toordinal(date)
        week == (today - isoweek1monday(year)) \div 7
        day == (today - isoweek1monday(year)) % 7
    IN  IF week < 0
        THEN [year |-> year - 1,
              week |-> ((today - isoweek1monday(year - 1)) \div 7) + 1,
              weekday |-> ((today - isoweek1monday(year - 1)) % 7) + 1]
        ELSE IF week >= 52 /\ today >= isoweek1monday(year + 1)
        THEN [year |-> year + 1, week |-> 1, weekday |-> day + 1]
        ELSE [year |-> year, week |-> week + 1, weekday |-> day + 1]

ValidDates(lo, hi) ==
    {Date(y, m, d) : y \in lo..hi, m \in 1..12, d \in 1..31} \
    {dt \in {Date(y, m, d) : y \in lo..hi, m \in {2, 4, 6, 9, 11}, d \in 29..31} :
        dt.day > days_in_month(dt.year, dt.month)}

-----------------------------------------------------------------------------
(* Feature construction and post-processing *)

quarter_offby(month) == (month \div 3) + 1

quarter(month) == ((month - 1) \div 3) + 1

build_row(patient, date) ==
    [PATIENT_NAME |-> patient,
     year         |-> date.year,
     month        |-> date.month,
     day_of_week  |-> weekday(date),
     week_of_year |-> isocalendar(date).week,
     quarter      |-> quarter(date.month)]

build_row_stale(s) ==
    LET prev == {e \in built_log : e.session = s /\ e.run = runs[s] - 1}
    IN  IF prev = {}
        THEN build_row(selected_patient[s], selected_date[s])
        ELSE build_row(selected_patient[s], (CHOOSE e \in prev : TRUE).date)

new_input_data(s) == build_row(selected_patient[s], selected_date[s])

round_trunc(t) == t \div 10

round(t) ==
    LET q == t \div 10
        r == t % 10
    IN  IF r < 5 THEN q
        ELSE IF r > 5 THEN q + 1
        ELSE IF q % 2 = 0 THEN q ELSE q + 1

max_second(a, b) == b

max(a, b) == IF b > a THEN b ELSE a

-----------------------------------------------------------------------------
(* The scorer: an opaque fitted regression, a function of the row *)

PatientCode(p) ==
    IF p = "patient_a" THEN 1 ELSE IF p = "patient_b" THEN 2 ELSE 0

predict(model, row) ==
    model.intercept + model.coef *
        (row.week_of_year + row.day_of_week + row.quarter + row.month
            + (row.year % 100) + PatientCode(row.PATIENT_NAME))

-----------------------------------------------------------------------------
(* Widgets *)

Pages == {"Prediction", "Data Insights"}

selectbox(options) ==
    IF Len(options) = 0 THEN {None} ELSE Elems(options)

after_button_always(pressed) == "build"

after_button(pressed) == IF pressed THEN "build" ELSE "footer"

frame_of_any(s) ==
    IF \E t \in scope.sessions : t # s /\ input_data[t] # <<>>
    THEN input_data[CHOOSE t \in scope.sessions : t # s /\ input_data[t] # <<>>]
    ELSE input_data[s]

frame_of(s) == input_data[s]

DemoDates == {Date(2024, 12, 30), Date(2024, 1, 1), Date(2021, 1, 3), Date(2024, 2, 29)}

PairDates == {Date(2024, 12, 30), Date(2025, 6, 15)}

\* the dates the date widget offers, by the name kept in scope.dates
DateChoices(k) ==
    IF k = "calendar" THEN ValidDates(MinYear, MaxYear)
    ELSE IF k = "demo" THEN DemoDates
    ELSE IF k = "pair" THEN PairDates
    ELSE {Date(2024, 12, 30)}

-----------------------------------------------------------------------------
(* Script steps of one session *)

StartRun(s) ==
    /\ pc[s] \in {"idle", "done"}
    /\ runs[s] < scope.maxRuns
    /\ runs' = [runs EXCEPT ![s] = @ + 1]
    /\ pipeline' = [pipeline EXCEPT ![s] = model_file]
    /\ patient_names' = [patient_names EXCEPT ![s] = names_file]
    /\ \E p \in Pages : page' = [page EXCEPT ![s] = p]
    /\ selected_patient' = [selected_patient EXCEPT ![s] = None]
    /\ selected_date' = [selected_date EXCEPT ![s] = NoDate]
    /\ button' = [button EXCEPT ![s] = FALSE]
    /\ input_data' = [input_data EXCEPT ![s] = <<>>]
    /\ predicted_visit_count' = [predicted_visit_count EXCEPT ![s] = <<>>]
    /\ shown' = [shown EXCEPT ![s] = <<>>]
    /\ builds' = [builds EXCEPT ![s] = 0]
    /\ score_calls' = [score_calls EXCEPT ![s] = 0]
    /\ pc' = [pc EXCEPT ![s] = "page"]
    /\ UNCHANGED <<names_file, model_file, scope, built_log, shown_log>>

PredictionWidgets(s) ==
    /\ pc[s] = "page"
    /\ page[s] = "Prediction"
    /\ \E p \in selectbox(patient_names[s]), d \in DateChoices(scope.dates), b \in BOOLEAN :
        /\ selected_patient' = [selected_patient EXCEPT ![s] = p]
        /\ selected_date' = [selected_date EXCEPT ![s] = d]
        /\ button' = [button EXCEPT ![s] = b]
        /\ pc' = [pc EXCEPT ![s] = after_button(b)]
    /\ UNCHANGED <<names_file, model_file, scope, runs, patient_names, pipeline,
                   page, input_data, predicted_visit_count, shown, builds,
                   score_calls, built_log, shown_log>>

BuildFeatures(s) ==
    /\ pc[s] = "build"
    /\ input_data' = [input_data EXCEPT ![s] = <<new_input_data(s)>>]
    /\ builds' = [builds EXCEPT ![s] = @ + 1]
    /\ built_log' = built_log \cup
            {[session |-> s, run |-> runs[s],
              patient |-> selected_patient[s], date |-> selected_date[s],
              row |-> new_input_data(s)]}
    /\ pc' = [pc EXCEPT ![s] = "predict"]
    /\ UNCHANGED <<names_file, model_file, scope, runs, patient_names, pipeline,
                   page, selected_patient, selected_date, button,
                   predicted_visit_count, shown, score_calls, shown_log>>

Predict(s) ==
    /\ pc[s] = "predict"
    /\ predicted_visit_count' =
            [predicted_visit_count EXCEPT
                ![s] = <<predict(pipeline[s], frame_of(s)[1])>>]
    /\ score_calls' = [score_calls EXCEPT ![s] = @ + 1]
    /\ pc' = [pc EXCEPT ![s] = "display"]
    /\ UNCHANGED <<names_file, model_file, scope, runs, patient_names, pipeline,
                   page, selected_patient, selected_date, button, input_data,
                   shown, builds, built_log, shown_log>>

Display(s) ==
    /\ pc[s] = "display"
    /\ LET count == max(0, round(predicted_visit_count[s][1]))
       IN  /\ shown' = [shown EXCEPT ![s] = <<count>>]
           /\ shown_log' = shown_log \cup
                {[raw |-> predicted_visit_count[s][1], count |-> count]}
    /\ pc' = [pc EXCEPT ![s] = "footer"]
    /\ UNCHANGED <<names_file, model_file, scope, runs, patient_names, pipeline,
                   page, selected_patient, selected_date, button, input_data,
                   predicted_visit_count, builds, score_calls, built_log>>

DataInsights(s) ==
    /\ pc[s] = "page"
    /\ page[s] = "Data Insights"
    /\ pc' = [pc EXCEPT ![s] = "footer"]
    /\ UNCHANGED <<names_file, model_file, scope, runs, patient_names, pipeline,
                   page, selected_patient, selected_date, button, input_data,
                   predicted_visit_count, shown, builds, score_calls,
                   built_log, shown_log>>

Footer(s) ==
    /\ pc[s] = "footer"
    /\ pc' = [pc EXCEPT ![s] = "done"]
    /\ UNCHANGED <<names_file, model_file, scope, runs, patient_names, pipeline,
                   page, selected_patient, selected_date, button, input_data,
                   predicted_visit_count, shown, builds, score_calls,
                   built_log, shown_log>>

Next ==
    \E s \in scope.sessions :
        \/ StartRun(s)
        \/ PredictionWidgets(s)
        \/ BuildFeatures(s)
        \/ Predict(s)
        \/ Display(s)
        \/ DataInsights(s)
        \/ Footer(s)

-----------------------------------------------------------------------------
(* Initial states *)

Rosters == {<<>>, <<"patient_a">>, <<"patient_a", "patient_b">>}

DemoModels == {[intercept |-> -32, coef |-> 0], [intercept |-> 3, coef |-> 1]}

InitWith(rosters, models, sc) ==
    /\ names_file \in rosters
    /\ model_file \in models
    /\ scope = sc
    /\ pc = [s \in SessionIds |-> "idle"]
    /\ runs = [s \in SessionIds |-> 0]
    /\ patient_names = [s \in SessionIds |-> <<>>]
    /\ pipeline = [s \in SessionIds |-> NoModel]
    /\ page = [s \in SessionIds |-> "Prediction"]
    /\ selected_patient = [s \in SessionIds |-> None]
    /\ selected_date = [s \in SessionIds |-> NoDate]
    /\ button = [s \in SessionIds |-> FALSE]
    /\ input_data = [s \in SessionIds |-> <<>>]
    /\ predicted_visit_count = [s \in SessionIds |-> <<>>]
    /\ shown = [s \in SessionIds |-> <<>>]
    /\ builds = [s \in SessionIds |-> 0]
    /\ score_calls = [s \in SessionIds |-> 0]
    /\ built_log = {}
    /\ shown_log = {}

\* one session, several runs in a row
Init ==
    InitWith(Rosters, DemoModels,
             [sessions |-> {1}, maxRuns |-> MaxRuns, dates |-> "demo"])

Spec == Init /\ [][Next]_vars

\* several sessions, one run each, interleaved
InitConcurrent ==
    InitWith({<<"patient_a", "patient_b">>}, DemoModels,
             [sessions |-> SessionIds, maxRuns |-> 1, dates |-> "pair"])

SpecConcurrent == InitConcurrent /\ [][Next]_vars

\* one run over every date of the calendar range
InitCalendar ==
    InitWith({<<"patient_a">>}, {[intercept |-> 3, coef |-> 1]},
             [sessions |-> {1}, maxRuns |-> 1, dates |-> "calendar"])

SpecCalendar == InitCalendar /\ [][Next]_vars

\* a constant scorer for every raw score of the range, two runs
InitScores ==
    InitWith({<<"patient_a">>},
             {[intercept |-> i, coef |-> 0] : i \in (0 - MaxAbsRaw)..MaxAbsRaw},
             [sessions |-> {1}, maxRuns |-> 2, dates |-> "single"])

SpecScores == InitScores /\ [][Next]_vars

-----------------------------------------------------------------------------
(* Reference calendar: weekday by Sakamoto's congruence, ISO week by the   *)
(* first-Thursday rule (week = (day of year - ISO weekday + 10) div 7,     *)
(* corrected at the year's ends by the number of weeks of the year).       *)

RefLeap(y) == (y % 400 = 0) \/ (y % 4 = 0 /\ y % 100 # 0)

RefMonthLen(y, m) ==
    IF m = 2 THEN (IF RefLeap(y) THEN 29 ELSE 28)
    ELSE IF m \in {4, 6, 9, 11} THEN 30 ELSE 31

RECURSIVE RefDayOfYear(_, _, _)
RefDayOfYear(y, m, d) ==
    IF m = 1 THEN d ELSE RefMonthLen(y, m - 1) + RefDayOfYear(y, m - 1, d)

\* 1 = Monday .. 7 = Sunday
RefIsoWeekday(date) ==
    LET y == IF date.month < 3 THEN date.year - 1 ELSE date.year
        t == <<0, 3, 2, 5, 0, 3, 5, 1, 4, 6, 2, 4>>[date.month]
        w == (y + (y \div 4) - (y \div 100) + (y \div 400) + t + date.day) % 7
    IN  IF w = 0 THEN 7 ELSE w

RefDec31(y) == (y + (y \div 4) - (y \div 100) + (y \div 400)) % 7

RefWeeksInYear(y) == IF RefDec31(y) = 4 \/ RefDec31(y - 1) = 3 THEN 53 ELSE 52

RefIsoWeekRaw(date) ==
    (RefDayOfYear(date.year, date.month, date.day) - RefIsoWeekday(date) + 10) \div 7

RefIsoWeek(date) ==
    IF RefIsoWeekRaw(date) < 1 THEN RefWeeksInYear(date.year - 1)
    ELSE IF RefIsoWeekRaw(date) > RefWeeksInYear(date.year) THEN 1
    ELSE RefIsoWeekRaw(date)

RefIsoYear(date) ==
    IF RefIsoWeekRaw(date) < 1 THEN date.year - 1
    ELSE IF RefIsoWeekRaw(date) > RefWeeksInYear(date.year) THEN date.year + 1
    ELSE date.year

Built(s) == s \in scope.sessions /\ input_data[s] # <<>>

Row(s) == input_data[s][1]

Shown(s) == s \in scope.sessions /\ shown[s] # <<>>

Clamp0(raw) == IF raw < 0 THEN 0 ELSE raw

-----------------------------------------------------------------------------
(* Claims *)

\* C1: whatever the raw score (positive, zero or negative), the displayed
\* visit count is an integer >= 0, and a negative raw score displays 0.
C1_NonNegative ==
    \A s \in SessionIds :
        Shown(s) =>
            /\ shown[s][1] \in Nat
            /\ predicted_visit_count[s][1] < 0 => shown[s][1] = 0

C1_Witness ==
    \E s \in SessionIds :
        Shown(s) /\ predicted_visit_count[s] = <<-32>> /\ shown[s] = <<0>>

\* C2: for every valid date, the week_of_year of the built row is the
\* ISO-8601 week of the date (first-Thursday rule) and lies in 1..53.
C2_IsoWeek ==
    \A s \in SessionIds :
        Built(s) =>
            /\ Row(s).week_of_year = RefIsoWeek(selected_date[s])
            /\ Row(s).week_of_year \in 1..53

\* a late-December date of a leap year that belongs to week 1, where
\* day_of_year // 7 would give 52
C2_Witness ==
    \E s \in SessionIds :
        /\ Built(s)
        /\ selected_date[s] = Date(2024, 12, 30)
        /\ Row(s).week_of_year = 1
        /\ RefDayOfYear(2024, 12, 30) \div 7 = 52

\* C3: for 2024-12-30 the built row has week_of_year 1 and its year is the
\* ISO year 2025, so that (year, week_of_year) names ISO week 1 of 2025.
C3_IsoYearRolls ==
    \A s \in SessionIds :
        (Built(s) /\ selected_date[s] = Date(2024, 12, 30)) =>
            /\ Row(s).week_of_year = 1
            /\ Row(s).year = 2025

\* C4: when the patient is not a member of the roster, no row is built and
\* the scorer is not invoked.
C4_UnknownPatientRejected ==
    \A s \in SessionIds :
        (pc[s] # "idle" /\ selected_patient[s] \notin Elems(patient_names[s])) =>
            /\ input_data[s] = <<>>
            /\ builds[s] = 0
            /\ score_calls[s] = 0

\* C5: for every valid date, the quarter of the built row is in 1..4 and is
\* 1 for months 1-3, 2 for months 4-6, 3 for months 7-9, 4 for months 10-12.
C5_Quarter ==
    \A s \in SessionIds :
        Built(s) =>
            /\ Row(s).quarter \in 1..4
            /\ selected_date[s].month \in
                    (3 * Row(s).quarter - 2)..(3 * Row(s).quarter)

C5_Witness ==
    \E s \in SessionIds :
        Built(s) /\ selected_date[s].month = 12 /\ Row(s).quarter = 4

\* C6: for every valid date, the day_of_week of the built row is in 0..6
\* and is the date's weekday counted from Monday = 0 to Sunday = 6.
C6_DayOfWeek ==
    \A s \in SessionIds :
        Built(s) =>
            /\ Row(s).day_of_week \in 0..6
            /\ Row(s).day_of_week = RefIsoWeekday(selected_date[s]) - 1

\* a Sunday
C6_Witness ==
    \E s \in SessionIds :
        /\ Built(s)
        /\ selected_date[s] = Date(2021, 1, 3)
        /\ Row(s).day_of_week = 6

\* C7: the displayed count is an integer within 0.5 of max(0, raw score);
\* a raw score of 4.5 displays 4 or 5, and equal raw scores always display
\* the same count.
C7_Rounding ==
    /\ \A s \in SessionIds :
        Shown(s) =>
            /\ shown[s][1] \in Int
            /\ 10 * shown[s][1] - Clamp0(predicted_visit_count[s][1]) \in -5..5
            /\ predicted_visit_count[s][1] = 45 => shown[s][1] \in {4, 5}
    /\ \A e1 \in shown_log, e2 \in shown_log :
            e1.raw = e2.raw => e1.count = e2.count

\* the tie 4.5 displayed in a second run
C7_Witness ==
    \E s \in SessionIds :
        /\ Shown(s)
        /\ runs[s] = 2
        /\ predicted_visit_count[s] = <<45>>
        /\ shown[s] = <<4>>
        /\ [raw |-> 45, count |-> 4] \in shown_log

SequentialResult(patient, date) ==
    LET raw == predict(model_file, build_row(patient, date))
    IN  IF raw < 0 THEN 0 ELSE round(raw)

ResultsMatchSequential ==
    \A s \in SessionIds :
        Shown(s) => shown[s][1] = SequentialResult(selected_patient[s], selected_date[s])

ArtifactsUnchanged ==
    /\ names_file' = names_file
    /\ model_file' = model_file
    /\ \A s \in SessionIds :
        /\ pc[s] \notin {"idle", "done"} => patient_names'[s] = patient_names[s]
        /\ pc[s] \notin {"idle", "done"} => pipeline'[s] = pipeline[s]

\* C9: under every interleaving of the sessions' runs, each session displays
\* the count its own (patient, date) gives when run alone, and the roster
\* and the model are never changed once loaded.
C9_NoInterference ==
    [](ResultsMatchSequential) /\ [][ArtifactsUnchanged]_vars

\* two sessions with distinct inputs have both displayed, with distinct counts
C9_Witness ==
    \E s \in SessionIds, t \in SessionIds :
        /\ s # t /\ Shown(s) /\ Shown(t)
        /\ <<selected_patient[s], selected_date[s]>> # <<selected_patient[t], selected_date[t]>>
        /\ shown[s] # shown[t]

\* C10: a finished run has built one row and called the scorer once exactly
\* when the page is Prediction and the button was pressed, and has built
\* nothing and called nothing otherwise; the scorer is never called before
\* the build nor a second time.
C10_OncePerPress ==
    \A s \in SessionIds :
        /\ score_calls[s] <= builds[s]
        /\ builds[s] <= 1
        /\ pc[s] = "done" =>
            IF page[s] = "Prediction" /\ button[s]
            THEN builds[s] = 1 /\ score_calls[s] = 1 /\ Shown(s)
            ELSE builds[s] = 0 /\ score_calls[s] = 0 /\ input_data[s] = <<>>
                    /\ predicted_visit_count[s] = <<>>

C10_Witness ==
    \E s \in SessionIds :
        /\ pc[s] = "done" /\ page[s] = "Prediction" /\ button[s]
        /\ builds[s] = 1 /\ score_calls[s] = 1

====
